---- MODULE Spec2Model ----
(***************************************************************************)
(* The signaling relay of server/routes.ts (registerRoutes) together with  *)
(* the in-memory broadcast registry of server/storage.ts (MemStorage).     *)
(*                                                                         *)
(* Every ws handler is an async function: it runs synchronously up to its  *)
(* first `await storage...`, is suspended there, and is resumed later.     *)
(* Other handlers may run between the suspension and the resumption, so a  *)
(* handler is modelled as one action per synchronous segment.  The body of *)
(* a MemStorage method runs synchronously at the call, before the await    *)
(* suspends the caller, so it belongs to the segment that makes the call.  *)
(***************************************************************************)
EXTENDS Integers, Sequences, FiniteSets, Bags, TLC

\* ---------------------------------------------------------------- bounds
MaxConns == 2        \* connection handles
MaxInFlight == 2     \* ws handlers suspended at an await at the same time
MaxBroadcasts == 2   \* records POST /api/broadcasts creates in a run
MaxMessages == 3     \* messages other than signaling ones received in a run
MaxPatches == 1      \* PATCH /api/broadcasts/:id requests in a run

Conns == 1..MaxConns
RoomIds == {"r1", "r2"}

NoConn == 0
Undefined == "undefined"

\* ------------------------------------------------------- JSON wire format
\* A JSON value: a string, a number written digit * 10^exponent, null, or the
\* {listenerCount, isActive} object of a room-update.  One record shape for
\* all of them keeps values comparable.
JValue(t, s, digit, exponent, n, b) ==
    [t |-> t, s |-> s, digit |-> digit, exponent |-> exponent,
     listenerCount |-> n, isActive |-> b]

JStr(s) == JValue("string", s, 0, 0, 0, FALSE)
JNum(digit, exponent) == JValue("number", "", digit, exponent, 0, FALSE)
JNull == JValue("null", "", 0, 0, 0, FALSE)
JInfinity == JValue("Infinity", "", 0, 0, 0, FALSE)
JRoomUpdate(n, b) == JValue("object", "", 0, 0, n, b)
JUndefined == JValue("undefined", "", 0, 0, 0, FALSE)

\* the largest power of ten a double holds: Number.MAX_VALUE is 1.797...e308
MaxDoubleExponent == 308

\* JSON.parse of a value: a number literal becomes the nearest double, and a
\* literal beyond Number.MAX_VALUE becomes Infinity
ParseValue(v) ==
    IF v.t = "number" /\ v.digit # 0 /\ v.exponent > MaxDoubleExponent
    THEN JInfinity
    ELSE v

\* JSON.stringify of a value: a non-finite number is written null
StringifyValue(v) == IF v.t = "Infinity" THEN JNull ELSE v

\* A wire text is either not JSON at all, or the text of a JSON object: its
\* members in the order written (a key may be written twice).
Text(members) == [wellFormed |-> TRUE, members |-> members]
Malformed == [wellFormed |-> FALSE, members |-> <<>>]

HasKey(members, k) == \E i \in DOMAIN members : members[i][1] = k

LastIndexOf(members, k) ==
    CHOOSE i \in DOMAIN members :
        /\ members[i][1] = k
        /\ \A j \in DOMAIN members : members[j][1] = k => j <= i

\* JSON.parse of an object text: a key keeps the position of its first
\* occurrence and the value of its last one.
RECURSIVE ParseMembers(_, _)
ParseMembers(members, i) ==
    IF i > Len(members) THEN <<>>
    ELSE IF \E j \in 1..(i - 1) : members[j][1] = members[i][1]
         THEN ParseMembers(members, i + 1)
         ELSE << <<members[i][1],
                    ParseValue(members[LastIndexOf(members, members[i][1])][2])>> >>
              \o ParseMembers(members, i + 1)

JSONparse(text) ==
    IF text.wellFormed
    THEN [ok |-> TRUE, members |-> ParseMembers(text.members, 1)]
    ELSE [ok |-> FALSE, members |-> <<>>]

\* obj.key of a parsed object (undefined when the key is absent)
Get(obj, k) ==
    IF HasKey(obj.members, k)
    THEN obj.members[LastIndexOf(obj.members, k)][2]
    ELSE JUndefined

IsDefined(pair) == pair[2].t # "undefined"

\* JSON.stringify of an object: its own members in insertion order, the
\* undefined ones left out.
JSONstringify(obj) ==
    LET own == SelectSeq(obj.members, IsDefined)
    IN Text([i \in DOMAIN own |-> <<own[i][1], StringifyValue(own[i][2])>>])

\* JavaScript truthiness of a string-or-undefined value
Truthy(v) == v.t = "object" \/ (v.t = "string" /\ v.s # "")

\* { type: 'room-update', data: { listenerCount, isActive } }
RoomUpdateMessage(listenerCount, isActive) ==
    [ok |-> TRUE,
     members |-> << <<"type", JStr("room-update")>>,
                    <<"data", JRoomUpdate(listenerCount, isActive)>> >>]

\* ------------------------------------------------------------- the state
VARIABLES
    readyState,          \* ws.readyState of every connection handle
    wsRoomId,            \* ws.roomId
    rooms,               \* Map<string, Set<WebSocketWithSession>>
    broadcasts,          \* MemStorage.broadcasts: Map<number, Broadcast>
    currentBroadcastId,  \* MemStorage.currentBroadcastId
    handlers,            \* the suspended async ws handlers (a bag of them)
    sent,                \* what the last step handed to client.send, per client
    messages,            \* messages other than signaling ones received so far
    patches,             \* PATCH requests served so far
    lastJoin,            \* history: the room each connection is joined to,
                         \* derived from the messages it sent, not from rooms
    everJoined,          \* history: the connection has had a join-room with a
                         \* roomId processed
    dropped,             \* history: some inbound message matched no case of
                         \* the switch, or was not JSON
    wsSessionId            \* ws.wsSessionId

vars == <<readyState, wsRoomId, rooms, broadcasts, currentBroadcastId,
          handlers, sent, messages, patches, lastJoin, everJoined, dropped,
          wsSessionId>>

\* ws.sessionId of a handle no connection event has come for yet
NoSessionId == <<>>

NotFound == [found |-> FALSE, id |-> 0, isActive |-> FALSE]

Nothing == [c \in Conns |-> <<>>]

\* ------------------------------------------------- rooms: Map<string, Set>
RoomsHas(rms, rid) == rid \in DOMAIN rms

RoomsGet(rms, rid) == IF RoomsHas(rms, rid) THEN rms[rid] ELSE {}

\* RoomsAdd without the rooms.has test: the set is created anew on every join
RoomsAddFresh(rms, rid, ws) ==
    [r \in DOMAIN rms \cup {rid} |-> IF r = rid THEN {ws} ELSE rms[r]]

\* if (!rooms.has(roomId)) rooms.set(roomId, new Set()); rooms.get(roomId).add(ws)
RoomsAdd(rms, rid, ws) ==
    [r \in DOMAIN rms \cup {rid} |->
        IF r = rid THEN RoomsGet(rms, rid) \cup {ws} ELSE rms[r]]

\* rooms.get(roomId).delete(ws)
RoomsDelete(rms, rid, ws) ==
    [r \in DOMAIN rms |-> IF r = rid THEN rms[r] \ {ws} ELSE rms[r]]

\* rooms.get(roomId).size
RoomsSize(rms, rid) == Cardinality(RoomsGet(rms, rid))

\* ------------------------------------------------------------ MemStorage
\* Map iteration is in insertion order, and ids are handed out increasing.
getBroadcastByRoomId(bs, rid) ==
    LET hits == {k \in DOMAIN bs : bs[k].roomId = rid}
    IN IF hits = {} THEN NotFound
       ELSE LET k == CHOOSE x \in hits : \A y \in hits : x <= y
            IN [found |-> TRUE, id |-> bs[k].id, isActive |-> bs[k].isActive]

updateListenerCount(bs, broadcastId, count) ==
    IF broadcastId \in DOMAIN bs
    THEN [bs EXCEPT ![broadcastId].listenerCount = count]
    ELSE bs

\* ------------------------------------------------------- broadcastToRoom
\* a broadcastToRoom without the readyState test
broadcastToRoomAnyState(rms, rs, rid, message, excludeWs) ==
    [client \in Conns |->
        IF /\ RoomsHas(rms, rid)
           /\ client \in rms[rid]
           /\ client # excludeWs
        THEN <<JSONstringify(message)>>
        ELSE <<>>]

broadcastToRoom(rms, rs, rid, message, excludeWs) ==
    [client \in Conns |->
        IF /\ RoomsHas(rms, rid)
           /\ client \in rms[rid]
           /\ client # excludeWs
           /\ rs[client] = "OPEN"
        THEN <<JSONstringify(message)>>
        ELSE <<>>]

\* MemStorage.createBroadcast: the fields a request leaves out get defaults
createBroadcast(bs, id, insertBroadcast) ==
    [k \in DOMAIN bs \cup {id} |->
        IF k = id
        THEN [id |-> id,
              roomId |-> insertBroadcast.roomId,
              isActive |-> IF "isActive" \in DOMAIN insertBroadcast
                           THEN insertBroadcast.isActive ELSE TRUE,
              listenerCount |-> IF "listenerCount" \in DOMAIN insertBroadcast
                                THEN insertBroadcast.listenerCount ELSE 0]
        ELSE bs[k]]

\* the value POST /api/broadcasts answers with: the record createBroadcast made
PostResponse(bs, id, insertBroadcast) ==
    [status |-> 200, body |-> createBroadcast(bs, id, insertBroadcast)[id]]

\* an updateBroadcast that stores the updates under an id it does not know
updateBroadcastUpsert(bs, id, updates) ==
    LET broadcast == IF id \in DOMAIN bs THEN bs[id]
                     ELSE [id |-> id, roomId |-> "", isActive |-> TRUE, listenerCount |-> 0]
    IN [k \in DOMAIN bs \cup {id} |->
           IF k = id
           THEN [f \in DOMAIN broadcast |->
                    IF f \in DOMAIN updates THEN updates[f] ELSE broadcast[f]]
           ELSE bs[k]]

\* an updateBroadcast that starts the listener count afresh unless it is supplied
updateBroadcastResetting(bs, id, updates) ==
    IF id \in DOMAIN bs
    THEN [bs EXCEPT ![id] =
             [f \in DOMAIN bs[id] \cup DOMAIN updates |->
                 IF f \in DOMAIN updates THEN updates[f]
                 ELSE IF f = "listenerCount" THEN 0 ELSE bs[id][f]]]
    ELSE bs

\* MemStorage.deleteBroadcast: this.broadcasts.delete(id); no route calls it
deleteBroadcast(bs, id) == [k \in DOMAIN bs \ {id} |-> bs[k]]

\* an updateBroadcast that deletes the record it is told to stop
updateBroadcastDeleting(bs, id, updates) ==
    IF id \in DOMAIN bs
    THEN IF "isActive" \in DOMAIN updates /\ ~updates.isActive
         THEN deleteBroadcast(bs, id)
         ELSE [bs EXCEPT ![id] =
                  [f \in DOMAIN bs[id] \cup DOMAIN updates |->
                      IF f \in DOMAIN updates THEN updates[f] ELSE bs[id][f]]]
    ELSE bs

\* MemStorage.updateBroadcast: { ...broadcast, ...updates }
updateBroadcast(bs, id, updates) ==
    IF id \in DOMAIN bs
    THEN [bs EXCEPT ![id] =
             [f \in DOMAIN bs[id] \cup DOMAIN updates |->
                 IF f \in DOMAIN updates THEN updates[f] ELSE bs[id][f]]]
    ELSE bs

\* the value PATCH /api/broadcasts/:id answers with: 404 when updateBroadcast
\* returns undefined, the updated record otherwise
PatchResponse(bs, id, updates) ==
    IF id \in DOMAIN updateBroadcast(bs, id, updates)
    THEN [status |-> 200, body |-> updateBroadcast(bs, id, updates)[id]]
    ELSE [status |-> 404, body |-> [error |-> "Broadcast not found"]]

\* Array.from(this.broadcasts.values()): the records in insertion order (ids
\* are handed out increasing and no record is ever deleted)
broadcastValues(bs) == [i \in 1..Cardinality(DOMAIN bs) |-> bs[i]]

IsActive(broadcast) == broadcast.isActive

\* getActiveBroadcasts without the filter
getAllBroadcasts(bs) ==
    broadcastValues(bs)

\* MemStorage.getActiveBroadcasts
getActiveBroadcasts(bs) ==
    SelectSeq(broadcastValues(bs), IsActive)

\* activeBroadcasts.reduce((sum, b) => sum + b.listenerCount, 0)
RECURSIVE reduceListenerCount(_, _, _)
reduceListenerCount(activeBroadcasts, i, sum) ==
    IF i > Len(activeBroadcasts) THEN sum
    ELSE reduceListenerCount(activeBroadcasts, i + 1,
                             sum + activeBroadcasts[i].listenerCount)

\* the value GET /api/stats answers with
StatsResponse(bs) ==
    LET activeBroadcasts == getActiveBroadcasts(bs)
    IN [status |-> 200,
        body |-> [activeStreams |-> Len(activeBroadcasts),
                  totalListeners |-> reduceListenerCount(activeBroadcasts, 1, 0),
                  connectionQuality |-> "Good"]]

\* ----------------------------------------- the three async ws handlers
\* Each handler has three synchronous segments: up to the first await
\* (Start), from there to the second await (Update), and the rest (Announce).

\* a joinRoomStart that admits the connection only to a room that has a record
joinRoomStartIfFound(rms, bs, rid, ws) ==
    [rooms |-> IF getBroadcastByRoomId(bs, rid).found THEN RoomsAdd(rms, rid, ws) ELSE rms,
     broadcast |-> getBroadcastByRoomId(bs, rid)]

\* join-room, routes.ts 85-93
joinRoomStart(rms, bs, rid, ws) ==
    [rooms |-> RoomsAdd(rms, rid, ws),
     broadcast |-> getBroadcastByRoomId(bs, rid)]

\* join-room, routes.ts 95-96
joinRoomUpdate(rms, bs, rid, broadcast) ==
    LET listenerCount == RoomsSize(rms, rid)
    IN [listenerCount |-> listenerCount,
        broadcasts |-> updateListenerCount(bs, broadcast.id, listenerCount)]

\* join-room, routes.ts 99-102
joinRoomAnnounce(rms, rs, rid, listenerCount, broadcast) ==
    broadcastToRoom(rms, rs, rid,
                    RoomUpdateMessage(listenerCount, broadcast.isActive), NoConn)

\* leave-room, routes.ts 109-111 (roomId is ws.roomId, read again in every segment)
leaveRoomStart(rms, bs, roomId, ws) ==
    [rooms |-> RoomsDelete(rms, roomId, ws),
     broadcast |-> getBroadcastByRoomId(bs, roomId)]

\* leave-room, routes.ts 113-114
leaveRoomUpdate(rms, bs, roomId, broadcast) ==
    LET listenerCount == RoomsSize(rms, roomId)
    IN [listenerCount |-> listenerCount,
        broadcasts |-> updateListenerCount(bs, broadcast.id, listenerCount)]

\* leave-room, routes.ts 116-119
leaveRoomAnnounce(rms, rs, roomId, listenerCount, broadcast) ==
    broadcastToRoom(rms, rs, roomId,
                    RoomUpdateMessage(listenerCount, broadcast.isActive), NoConn)

\* close, routes.ts 140-142
closeStart(rms, bs, roomId, ws) ==
    [rooms |-> RoomsDelete(rms, roomId, ws),
     broadcast |-> getBroadcastByRoomId(bs, roomId)]

\* closeUpdate without the storage call: the new count is not persisted
closeUpdateNotPersisted(rms, bs, roomId, broadcast) ==
    [listenerCount |-> RoomsSize(rms, roomId), broadcasts |-> bs]

\* close, routes.ts 144-145
closeUpdate(rms, bs, roomId, broadcast) ==
    LET listenerCount == RoomsSize(rms, roomId)
    IN [listenerCount |-> listenerCount,
        broadcasts |-> updateListenerCount(bs, broadcast.id, listenerCount)]

\* close, routes.ts 147-150
closeAnnounce(rms, rs, roomId, listenerCount, broadcast) ==
    broadcastToRoom(rms, rs, roomId,
                    RoomUpdateMessage(listenerCount, broadcast.isActive), NoConn)

\* ------------------------------------------------------ suspended handlers
\* A handler whose lookup found no record has nothing left to do when it
\* resumes (the rest of its body is `if (broadcast) {...}`), so it is not kept.
InFlight == BagCardinality(handlers)

\* sizeAtStart is history: the size of the handler's room when it was suspended;
\* changed is history too: whether the handler's add or delete changed the set;
\* sizes is history too: the size of every room when the handler read its listenerCount;
\* for leave-room and close, roomId is history too: the ws.roomId the handler
\* started with (it reads ws.roomId again whenever it resumes)
Handler(kind, ws, rid, broadcast, size, changed) ==
    [kind |-> kind, pc |-> 1, ws |-> ws, roomId |-> rid,
     broadcast |-> broadcast, listenerCount |-> 0, sizeAtStart |-> size,
     changed |-> changed, sizes |-> [r \in RoomIds |-> 0]]

Suspend(kind, ws, rid, broadcast, size) ==
    IF broadcast.found
    THEN /\ InFlight < MaxInFlight
         /\ handlers' = handlers (+) SetToBag({Handler(kind, ws, rid, broadcast, size,
                                                       RoomsGet(rooms', rid) # RoomsGet(rooms, rid))})
    ELSE UNCHANGED handlers

\* the room a suspended handler works on when it resumes: data.roomId for
\* join-room, the current ws.roomId for leave-room and close
RoomOf(h) == IF h.kind = "join" THEN h.roomId ELSE wsRoomId[h.ws]

\* ---------------------------------------------------------------- inputs
ClientTypes == {"join-room", "leave-room", "offer", "answer", "ice-candidate",
                "room-update", "ping"}

SignalTypes == {"offer", "answer", "ice-candidate"}

Member(k, v) == IF v = Undefined THEN <<>> ELSE << <<k, JStr(v)>> >>

ClientMessage(t, r, d) == Text(Member("type", t) \o Member("roomId", r) \o Member("data", d))

\* a signaling message that carries every field of WebSocketMessage
FullMessage(t, r, sessionId, data) ==
    Text(Member("type", t) \o Member("roomId", r) \o Member("sessionId", sessionId)
         \o << <<"data", data>> >>)

ClientTexts ==
    {Malformed}
    \cup {ClientMessage("join-room", r, Undefined) : r \in RoomIds \cup {Undefined}}
    \cup {ClientMessage("leave-room", Undefined, Undefined)}
    \cup {ClientMessage("offer", "r1", "sdp")}
    \cup {FullMessage("offer", "r2", "s1", JStr("sdp"))}
    \cup {FullMessage("answer", Undefined, Undefined, JNum(1, MaxDoubleExponent + 1))}
    \cup {ClientMessage("ice-candidate", Undefined, "sdp")}
    \cup {ClientMessage(t, Undefined, Undefined) : t \in {"room-update", "ping"}}

\* request bodies insertBroadcastSchema accepts: isActive and listenerCount
\* are optional in it
InsertBroadcasts ==
    {[roomId |-> "r1"],
     [roomId |-> "r2", isActive |-> FALSE, listenerCount |-> 1]}

\* request bodies of PATCH: req.body goes to updateBroadcast as it is
Updates ==
    {[isActive |-> FALSE], [isActive |-> TRUE], [id |-> 2], [listenerCount |-> -1]}

\* ------------------------------------------------------------------ Init
Init ==
    /\ readyState = [c \in Conns |-> "NONE"]
    /\ wsRoomId = [c \in Conns |-> Undefined]
    /\ rooms = <<>>
    /\ broadcasts = <<>>
    /\ currentBroadcastId = 1
    /\ handlers = EmptyBag
    /\ sent = Nothing
    /\ messages = 0
    /\ patches = 0
    /\ lastJoin = [c \in Conns |-> Undefined]
    /\ everJoined = [c \in Conns |-> FALSE]
    /\ dropped = FALSE
    /\ wsSessionId = [c \in Conns |-> NoSessionId]

\* --------------------------------------------------------------- actions
\* Math.random() as the digits toString(36) writes after "0."
Randoms == << <<"4", "f", "z">>, <<"k", "0", "q", "7">> >>

\* the length substr(2, 9) cuts the digits to
SessionIdLength == 9

\* Math.random().toString(36).substr(2, 9)
generateSessionId(random) ==
    SubSeq(random, 1, IF Len(random) < SessionIdLength THEN Len(random)
                      ELSE SessionIdLength)

\* the draws told apart up to renaming: one that was drawn before, or the
\* first of Randoms that was not
Draws ==
    {i \in DOMAIN Randoms :
        \A j \in 1..(i - 1) :
            \E c \in Conns : wsSessionId[c] = generateSessionId(Randoms[j])}

\* wss.on('connection'); handles are taken in order
Connection(ws) ==
    /\ readyState[ws] = "NONE"
    /\ \A other \in 1..(ws - 1) : readyState[other] # "NONE"
    /\ readyState' = [readyState EXCEPT ![ws] = "OPEN"]
    /\ \E i \in Draws :
           wsSessionId' = [wsSessionId EXCEPT ![ws] = generateSessionId(Randoms[i])]
    /\ sent' = Nothing
    /\ UNCHANGED <<wsRoomId, rooms, broadcasts, currentBroadcastId, handlers,
                   messages, patches, lastJoin, everJoined, dropped>>

\* ws.on('message'), case 'join-room', up to the first await
JoinRoom(ws, text) ==
    LET data == JSONparse(text)
        rid == Get(data, "roomId")
    IN /\ readyState[ws] = "OPEN"
       /\ messages < MaxMessages
       /\ data.ok
       /\ Get(data, "type") = JStr("join-room")
       /\ IF Truthy(rid)
          THEN LET r == joinRoomStart(rooms, broadcasts, rid.s, ws)
               IN /\ wsRoomId' = [wsRoomId EXCEPT ![ws] = rid.s]
                  /\ rooms' = r.rooms
                  /\ Suspend("join", ws, rid.s, r.broadcast, RoomsSize(r.rooms, rid.s))
                  /\ lastJoin' = [lastJoin EXCEPT ![ws] = rid.s]
                  /\ everJoined' = [everJoined EXCEPT ![ws] = TRUE]
          ELSE UNCHANGED <<wsRoomId, rooms, handlers, lastJoin, everJoined>>
       /\ messages' = messages + 1
       /\ sent' = Nothing
       /\ UNCHANGED <<readyState, broadcasts, currentBroadcastId, patches, dropped,
                      wsSessionId>>

\* ws.on('message'), case 'leave-room', up to the first await
LeaveRoom(ws, text) ==
    LET data == JSONparse(text)
    IN /\ readyState[ws] = "OPEN"
       /\ messages < MaxMessages
       /\ data.ok
       /\ Get(data, "type") = JStr("leave-room")
       /\ IF wsRoomId[ws] # Undefined /\ RoomsHas(rooms, wsRoomId[ws])
          THEN LET r == leaveRoomStart(rooms, broadcasts, wsRoomId[ws], ws)
               IN /\ rooms' = r.rooms
                  /\ Suspend("leave", ws, wsRoomId[ws], r.broadcast,
                             RoomsSize(r.rooms, wsRoomId[ws]))
          ELSE UNCHANGED <<rooms, handlers>>
       /\ lastJoin' = [lastJoin EXCEPT ![ws] = Undefined]
       /\ messages' = messages + 1
       /\ sent' = Nothing
       /\ UNCHANGED <<readyState, wsRoomId, broadcasts, currentBroadcastId, patches,
                      everJoined, dropped, wsSessionId>>

\* forwarding that waits behind the sender's suspended handlers: nothing is
\* sent while one of them is in flight
forwardSignalAfterHandlers(rms, rs, roomId, data, ws) ==
    IF roomId # Undefined /\ \A h \in BagToSet(handlers) : h.ws # ws
    THEN broadcastToRoom(rms, rs, roomId, data, ws)
    ELSE Nothing

\* routes.ts 128-130: what an offer, answer or ice-candidate makes the relay send
forwardSignal(rms, rs, roomId, data, ws) ==
    IF roomId # Undefined THEN broadcastToRoom(rms, rs, roomId, data, ws) ELSE Nothing

IsSignal(data) ==
    data.ok /\ Get(data, "type").t = "string" /\ Get(data, "type").s \in SignalTypes

\* a signaling case that first adopts the room the message names as the
\* sender's session room
SignalAdopting(ws, text) ==
    LET data == JSONparse(text)
        named == Get(data, "roomId")
    IN /\ readyState[ws] = "OPEN"
       /\ IsSignal(data)
       /\ wsRoomId' = [wsRoomId EXCEPT ![ws] = IF Truthy(named) THEN named.s ELSE @]
       /\ sent' = forwardSignal(rooms, readyState, wsRoomId'[ws], data, ws)
       /\ UNCHANGED <<readyState, rooms, broadcasts, currentBroadcastId,
                      handlers, messages, patches, lastJoin, everJoined, dropped, wsSessionId>>

\* ws.on('message'), cases 'offer', 'answer', 'ice-candidate'
Signal(ws, text) ==
    LET data == JSONparse(text)
    IN /\ readyState[ws] = "OPEN"
       /\ IsSignal(data)
       /\ sent' = forwardSignal(rooms, readyState, wsRoomId[ws], data, ws)
       /\ UNCHANGED <<readyState, wsRoomId, rooms, broadcasts, currentBroadcastId,
                      handlers, messages, patches, lastJoin, everJoined, dropped, wsSessionId>>

\* a catch block that gives up the connection: ws.close() after the log line
DroppedClosing(ws, text) ==
    LET data == JSONparse(text)
    IN /\ readyState[ws] = "OPEN"
       /\ \/ ~data.ok
          \/ Get(data, "type").t # "string"
          \/ Get(data, "type").s \notin SignalTypes \cup {"join-room", "leave-room"}
       /\ messages < MaxMessages
       /\ messages' = messages + 1
       /\ dropped' = TRUE
       /\ readyState' = [readyState EXCEPT ![ws] = "CLOSED"]
       /\ sent' = Nothing
       /\ UNCHANGED <<wsRoomId, rooms, broadcasts, currentBroadcastId,
                      handlers, patches, lastJoin, everJoined, wsSessionId>>

\* ws.on('message'): JSON.parse throws, or no case of the switch matches
Dropped(ws, text) ==
    LET data == JSONparse(text)
    IN /\ readyState[ws] = "OPEN"
       /\ \/ ~data.ok
          \/ Get(data, "type").t # "string"
          \/ Get(data, "type").s \notin SignalTypes \cup {"join-room", "leave-room"}
       /\ messages < MaxMessages
       /\ messages' = messages + 1
       /\ dropped' = TRUE
       /\ sent' = Nothing
       /\ UNCHANGED <<readyState, wsRoomId, rooms, broadcasts, currentBroadcastId,
                      handlers, patches, lastJoin, everJoined, wsSessionId>>

\* a close handler without the guard of line 139, telling every room's open
\* members that a connection has gone
CloseToldToAll(ws) ==
    /\ readyState[ws] = "OPEN"
    /\ readyState' = [readyState EXCEPT ![ws] = "CLOSED"]
    /\ rooms' = [r \in DOMAIN rooms |-> rooms[r] \ {ws}]
    /\ sent' = [c \in Conns |->
                   IF c # ws /\ readyState[c] = "OPEN" /\ \E r \in DOMAIN rooms : c \in rooms[r]
                   THEN <<JSONstringify(RoomUpdateMessage(0, TRUE))>>
                   ELSE <<>>]
    /\ lastJoin' = [lastJoin EXCEPT ![ws] = Undefined]
    /\ UNCHANGED <<wsRoomId, broadcasts, currentBroadcastId, handlers, messages, patches,
                   everJoined, dropped, wsSessionId>>

\* ws.on('close'), up to the first await
Close(ws) ==
    /\ readyState[ws] = "OPEN"
    /\ readyState' = [readyState EXCEPT ![ws] = "CLOSED"]
    /\ IF wsRoomId[ws] # Undefined /\ RoomsHas(rooms, wsRoomId[ws])
       THEN LET r == closeStart(rooms, broadcasts, wsRoomId[ws], ws)
            IN /\ rooms' = r.rooms
               /\ Suspend("close", ws, wsRoomId[ws], r.broadcast,
                          RoomsSize(r.rooms, wsRoomId[ws]))
       ELSE UNCHANGED <<rooms, handlers>>
    /\ lastJoin' = [lastJoin EXCEPT ![ws] = Undefined]
    /\ sent' = Nothing
    /\ UNCHANGED <<wsRoomId, broadcasts, currentBroadcastId, messages, patches,
                   everJoined, dropped, wsSessionId>>

\* the second segment of the handler h, on the current state
UpdateOf(h) ==
    CASE h.kind = "join" -> joinRoomUpdate(rooms, broadcasts, RoomOf(h), h.broadcast)
      [] h.kind = "leave" -> leaveRoomUpdate(rooms, broadcasts, RoomOf(h), h.broadcast)
      [] OTHER -> closeUpdate(rooms, broadcasts, RoomOf(h), h.broadcast)

\* the third segment of the handler h, on the current state
AnnounceOf(h) ==
    CASE h.kind = "join" ->
           joinRoomAnnounce(rooms, readyState, RoomOf(h), h.listenerCount, h.broadcast)
      [] h.kind = "leave" ->
           leaveRoomAnnounce(rooms, readyState, RoomOf(h), h.listenerCount, h.broadcast)
      [] OTHER ->
           closeAnnounce(rooms, readyState, RoomOf(h), h.listenerCount, h.broadcast)

\* a handler resumes after `await storage.getBroadcastByRoomId(...)`
Update(h) ==
    /\ h.pc = 1
    /\ broadcasts' = UpdateOf(h).broadcasts
    /\ handlers' = (handlers (-) SetToBag({h}))
                   (+) SetToBag({[h EXCEPT !.pc = 2,
                                           !.listenerCount = UpdateOf(h).listenerCount,
                                           !.sizes = [r \in RoomIds |-> RoomsSize(rooms, r)]]})
    /\ sent' = Nothing
    /\ UNCHANGED <<readyState, wsRoomId, rooms, currentBroadcastId, messages,
                   patches, lastJoin, everJoined, dropped, wsSessionId>>

\* a handler resumes after `await storage.updateListenerCount(...)`
Announce(h) ==
    /\ h.pc = 2
    /\ sent' = AnnounceOf(h)
    /\ handlers' = handlers (-) SetToBag({h})
    /\ UNCHANGED <<readyState, wsRoomId, rooms, broadcasts, currentBroadcastId,
                   messages, patches, lastJoin, everJoined, dropped, wsSessionId>>

\* POST /api/broadcasts
PostBroadcast(insertBroadcast) ==
    /\ currentBroadcastId <= MaxBroadcasts
    /\ broadcasts' = createBroadcast(broadcasts, currentBroadcastId, insertBroadcast)
    /\ currentBroadcastId' = currentBroadcastId + 1
    /\ sent' = Nothing
    /\ UNCHANGED <<readyState, wsRoomId, rooms, handlers, messages, patches,
                   lastJoin, everJoined, dropped, wsSessionId>>

\* PATCH /api/broadcasts/:id
PatchBroadcast(id, updates) ==
    /\ patches < MaxPatches
    /\ patches' = patches + 1
    /\ broadcasts' = updateBroadcast(broadcasts, id, updates)
    /\ sent' = Nothing
    /\ UNCHANGED <<readyState, wsRoomId, rooms, currentBroadcastId, handlers,
                   messages, lastJoin, everJoined, dropped, wsSessionId>>

\* ------------------------------------------------- the broadcaster client
\* Math.random() as the digits toString(36) writes after "0.", one draw for
\* each room of the model: the id the broadcaster panel generated for it
RoomRandoms == [r1 |-> <<"k", "0", "q", "7">>, r2 |-> <<"1", "f", "z">>]

\* the length substring(2, 11) cuts the digits to
RoomIdLength == 9

\* generateRoomId: Math.random().toString(36).substring(2, 11)
generateRoomId(random) ==
    SubSeq(random, 1, IF Len(random) < RoomIdLength THEN Len(random) ELSE RoomIdLength)

\* the characters of the room id the model calls rid
RoomIdText(rid) == generateRoomId(RoomRandoms[rid])

HexDigits == <<"0", "1", "2", "3", "4", "5", "6", "7", "8", "9",
               "a", "b", "c", "d", "e", "f">>

\* the value of the character as a digit of the radix, NaN when it is none
DigitValue(ch, radix) ==
    IF \E v \in 1..radix : HexDigits[v] = ch
    THEN (CHOOSE v \in 1..radix : HexDigits[v] = ch) - 1
    ELSE -1

\* what parseInt returns for a text that does not start with a number
NaN == -1

\* the digits of text from position i on, read in the radix onto acc
RECURSIVE parseDigits(_, _, _, _)
parseDigits(text, i, radix, acc) ==
    IF i > Len(text) \/ DigitValue(text[i], radix) < 0 THEN acc
    ELSE parseDigits(text, i + 1, radix, acc * radix + DigitValue(text[i], radix))

\* parseInt(req.params.id) on a text of base-36 digits: the leading decimal
\* digits (hexadecimal ones after "0x"), NaN when there is none
parseInt(text) ==
    IF Len(text) >= 3 /\ text[1] = "0" /\ text[2] = "x" /\ DigitValue(text[3], 16) >= 0
    THEN parseDigits(text, 3, 16, 0)
    ELSE IF Len(text) >= 1 /\ DigitValue(text[1], 10) >= 0
    THEN parseDigits(text, 1, 10, 0)
    ELSE NaN

\* handleStopBroadcast: PATCH /api/broadcasts/${roomId} with {isActive: false};
\* the server reads the path segment with parseInt
StopBroadcast(roomId) ==
    PatchBroadcast(parseInt(RoomIdText(roomId)), [isActive |-> FALSE])

\* the relay, with the broadcasts created through POST
RelayNext ==
    \/ \E ws \in Conns : Connection(ws)
    \/ \E ws \in Conns, text \in ClientTexts : JoinRoom(ws, text)
    \/ \E ws \in Conns, text \in ClientTexts : LeaveRoom(ws, text)
    \/ \E ws \in Conns, text \in ClientTexts : Signal(ws, text)
    \/ \E ws \in Conns, text \in ClientTexts : Dropped(ws, text)
    \/ \E ws \in Conns : Close(ws)
    \/ \E h \in BagToSet(handlers) : Update(h)
    \/ \E h \in BagToSet(handlers) : Announce(h)
    \/ \E insertBroadcast \in InsertBroadcasts : PostBroadcast(insertBroadcast)

Next ==
    \/ RelayNext
    \/ \E id \in 1..(MaxBroadcasts + 1), updates \in Updates : PatchBroadcast(id, updates)
    \/ \E roomId \in RoomIds : StopBroadcast(roomId)

Spec == Init /\ [][Next]_vars

RelaySpec == Init /\ [][RelayNext]_vars

\* ---------------------------------- a handler run without interruption
\* ws.on('message') case 'leave-room', routes.ts 107-122, from the current
\* state to its end: the rooms and records it leaves and what it sends
LeaveRoomRun(ws) ==
    IF wsRoomId[ws] # Undefined /\ RoomsHas(rooms, wsRoomId[ws])
    THEN LET start == leaveRoomStart(rooms, broadcasts, wsRoomId[ws], ws)
             update == leaveRoomUpdate(start.rooms, broadcasts, wsRoomId[ws],
                                       start.broadcast)
         IN IF start.broadcast.found
            THEN [rooms |-> start.rooms,
                  broadcasts |-> update.broadcasts,
                  sent |-> leaveRoomAnnounce(start.rooms, readyState, wsRoomId[ws],
                                             update.listenerCount, start.broadcast)]
            ELSE [rooms |-> start.rooms, broadcasts |-> broadcasts, sent |-> Nothing]
    ELSE [rooms |-> rooms, broadcasts |-> broadcasts, sent |-> Nothing]

\* ws.on('close'), routes.ts 138-153, likewise; the socket is CLOSED by then
CloseRun(ws) ==
    LET closed == [readyState EXCEPT ![ws] = "CLOSED"]
    IN IF wsRoomId[ws] # Undefined /\ RoomsHas(rooms, wsRoomId[ws])
       THEN LET start == closeStart(rooms, broadcasts, wsRoomId[ws], ws)
                update == closeUpdate(start.rooms, broadcasts, wsRoomId[ws],
                                      start.broadcast)
            IN IF start.broadcast.found
               THEN [rooms |-> start.rooms,
                     broadcasts |-> update.broadcasts,
                     sent |-> closeAnnounce(start.rooms, closed, wsRoomId[ws],
                                            update.listenerCount, start.broadcast)]
               ELSE [rooms |-> start.rooms, broadcasts |-> broadcasts, sent |-> Nothing]
       ELSE [rooms |-> rooms, broadcasts |-> broadcasts, sent |-> Nothing]

\* The relay of a server on which, before any connection opened, a broadcast
\* was created for each room (POST r1, then POST r2) and the second one was
\* stopped (PATCH 2 {isActive: false}); no REST request comes afterwards.
ProvisionedInit ==
    /\ readyState = [c \in Conns |-> "NONE"]
    /\ wsRoomId = [c \in Conns |-> Undefined]
    /\ rooms = <<>>
    /\ broadcasts =
           updateBroadcast(
               createBroadcast(createBroadcast(<<>>, 1, [roomId |-> "r1"]),
                               2, [roomId |-> "r2"]),
               2, [isActive |-> FALSE])
    /\ currentBroadcastId = 3
    /\ handlers = EmptyBag
    /\ sent = Nothing
    /\ messages = 0
    /\ patches = 0
    /\ lastJoin = [c \in Conns |-> Undefined]
    /\ everJoined = [c \in Conns |-> FALSE]
    /\ dropped = FALSE
    /\ wsSessionId = [c \in Conns |-> NoSessionId]

ProvisionedNext ==
    \/ \E ws \in Conns : Connection(ws)
    \/ \E ws \in Conns, text \in ClientTexts : JoinRoom(ws, text)
    \/ \E ws \in Conns, text \in ClientTexts : LeaveRoom(ws, text)
    \/ \E ws \in Conns, text \in ClientTexts : Signal(ws, text)
    \/ \E ws \in Conns, text \in ClientTexts : Dropped(ws, text)
    \/ \E ws \in Conns : Close(ws)
    \/ \E h \in BagToSet(handlers) : Update(h)
    \/ \E h \in BagToSet(handlers) : Announce(h)

ProvisionedSpec == ProvisionedInit /\ [][ProvisionedNext]_vars

\* The relay with the records in place and the first connection already a
\* listener of r1: the state of ProvisionedSpec after c1 has opened, sent a
\* join-room for r1 and its handler has run to completion, taken as the start
\* so that the message budget covers what c1 does next.
JoinedInit ==
    /\ readyState = [c \in Conns |-> IF c = 1 THEN "OPEN" ELSE "NONE"]
    /\ wsRoomId = [c \in Conns |-> IF c = 1 THEN "r1" ELSE Undefined]
    /\ rooms = RoomsAdd(<<>>, "r1", 1)
    /\ broadcasts =
           updateListenerCount(
               updateBroadcast(
                   createBroadcast(createBroadcast(<<>>, 1, [roomId |-> "r1"]),
                                   2, [roomId |-> "r2"]),
                   2, [isActive |-> FALSE]),
               1, 1)
    /\ currentBroadcastId = 3
    /\ handlers = EmptyBag
    /\ sent = joinRoomAnnounce(rooms, readyState, "r1", 1,
                               getBroadcastByRoomId(broadcasts, "r1"))
    /\ messages = 0
    /\ patches = 0
    /\ lastJoin = [c \in Conns |-> IF c = 1 THEN "r1" ELSE Undefined]
    /\ everJoined = [c \in Conns |-> c = 1]
    /\ dropped = FALSE
    /\ wsSessionId = [c \in Conns |-> IF c = 1 THEN generateSessionId(Randoms[1])
                                       ELSE NoSessionId]

JoinedSpec == JoinedInit /\ [][ProvisionedNext]_vars

\* The registry side of the server: the two REST requests that write records
\* and the ws handlers that write listener counts.  Signaling and dropped
\* messages neither read nor write a record and are left out.
RegistryNext ==
    \/ \E ws \in Conns : Connection(ws)
    \/ \E ws \in Conns, text \in ClientTexts : JoinRoom(ws, text)
    \/ \E ws \in Conns, text \in ClientTexts : LeaveRoom(ws, text)
    \/ \E ws \in Conns : Close(ws)
    \/ \E h \in BagToSet(handlers) : Update(h)
    \/ \E h \in BagToSet(handlers) : Announce(h)
    \/ \E insertBroadcast \in InsertBroadcasts : PostBroadcast(insertBroadcast)
    \/ \E id \in 1..(MaxBroadcasts + 1), updates \in Updates : PatchBroadcast(id, updates)
    \/ \E roomId \in RoomIds : StopBroadcast(roomId)

RegistrySpec == Init /\ [][RegistryNext]_vars

\* ================================================================ claims
Open(c) == readyState[c] = "OPEN"

\* the rooms whose membership set holds the connection
RoomsOf(c) == {r \in DOMAIN rooms : c \in rooms[r]}

\* no suspended handler belongs to the connection
Settled(c) == \A h \in BagToSet(handlers) : h.ws # c

\* the connections the messages received so far say are joined to the room
LiveJoinSet(r) == {c \in Conns : Open(c) /\ lastJoin[c] = r}

\* C1: for every roomId the size of the room's membership set equals the
\* number of open connections whose most recent join-room named that room and
\* that have neither sent leave-room nor closed since.
C1_MembershipIsLiveJoinSet ==
    \A r \in RoomIds : RoomsSize(rooms, r) = Cardinality(LiveJoinSet(r))

\* C5: once a connection has closed and its close handler has completed, the
\* connection is a member of no room's membership set.
C5_ClosedConnectionInNoRoom ==
    \A c \in Conns : (readyState[c] = "CLOSED" /\ Settled(c)) => RoomsOf(c) = {}

\* C6: in every reachable state each connection is contained in the membership
\* set of at most one room (a join-room for another room removes it from the
\* room it was in).
C6_AtMostOneRoom ==
    \A c \in Conns : Cardinality(RoomsOf(c)) <= 1

Quiescent == handlers = EmptyBag

\* C2: whenever no join-room, leave-room or close handler is in flight, for
\* every roomId that has a Broadcast record, that record's listenerCount equals
\* the size of the room's membership set.
C2_ListenerCountIsRoomSize ==
    Quiescent =>
        \A k \in DOMAIN broadcasts :
            broadcasts[k].listenerCount = RoomsSize(rooms, broadcasts[k].roomId)

\* C3: when a connection that is a member of room R sends an offer, answer or
\* ice-candidate, the message is delivered to every other open member of R and
\* is never delivered back to the sender.
C3_SignalReachesEveryOtherMember ==
    [][\A ws \in Conns, text \in ClientTexts :
          Signal(ws, text) =>
              /\ sent'[ws] = <<>>
              /\ \A r \in RoomsOf(ws) : \A m \in rooms[r] \ {ws} :
                     Open(m) => sent'[m] = <<JSONstringify(JSONparse(text))>>]_vars

\* C10: an offer, answer or ice-candidate from a connection that never joined,
\* or that has sent leave-room and not joined again, is delivered to no
\* connection.
C10_NoForwardingUnlessJoined ==
    [][\A ws \in Conns, text \in ClientTexts :
          (Signal(ws, text) /\ lastJoin[ws] = Undefined) => sent' = Nothing]_vars

RoomUpdateText(listenerCount, isActive) ==
    JSONstringify(RoomUpdateMessage(listenerCount, isActive))

IsRoomUpdate(texts) ==
    \A i \in DOMAIN texts : Get(JSONparse(texts[i]), "type") = JStr("room-update")

\* C7: when a join-room is processed for a room that has a Broadcast record,
\* every open member of that room, the sender included, receives a room-update
\* whose listenerCount equals the room's membership size after the join (the
\* size the join left, or the size when the announcement is made) and whose
\* isActive equals the Broadcast's isActive.
C7_JoinAnnouncesRoomSize ==
    [][\A h \in BagToSet(handlers) :
          (Announce(h) /\ h.kind = "join") =>
              \A m \in RoomsGet(rooms, h.roomId) :
                  Open(m) =>
                      \E n \in {h.sizeAtStart, RoomsSize(rooms, h.roomId)} :
                          sent'[m] = <<RoomUpdateText(n,
                                          getBroadcastByRoomId(broadcasts, h.roomId).isActive)>>]_vars

\* C8: when a joined connection closes abruptly in a room that has a Broadcast
\* record, every remaining open member of that room receives, by the time the
\* close handler has finished, a room-update whose listenerCount equals the
\* membership size after the removal (the size the removal left, or the size
\* without the closed connection when the announcement is made), and nothing
\* but room-updates is sent.
C8_CloseAnnouncesRemainingSize ==
    [][\A h \in BagToSet(handlers) :
          (Announce(h) /\ h.kind = "close") =>
              /\ \A c \in Conns : IsRoomUpdate(sent'[c])
              /\ \A r \in {wsRoomId[h.ws]} \cup RoomsOf(h.ws) :
                     getBroadcastByRoomId(broadcasts, r).found =>
                         \A m \in rooms[r] \ {h.ws} :
                             Open(m) =>
                                 \E n \in {h.sizeAtStart, Cardinality(rooms[r] \ {h.ws})} :
                                     sent'[m] = <<RoomUpdateText(n,
                                                     getBroadcastByRoomId(broadcasts, r).isActive)>>]_vars

\* the connection is joined to the room its session names
Joined(ws) == wsRoomId[ws] # Undefined /\ ws \in RoomsGet(rooms, wsRoomId[ws])

\* C4: from the same state with connection C joined to room R, closing C and C
\* sending leave-room produce the same membership sets, the same persisted
\* listenerCount and the same room-update messages to the same recipients; the
\* same holds segment by segment for a suspended leave-room or close handler
\* whose connection has not joined the room again (a closed one cannot).
C4_CloseEquivalentToLeave ==
    /\ \A ws \in Conns : (Open(ws) /\ Joined(ws)) => CloseRun(ws) = LeaveRoomRun(ws)
    /\ \A h \in BagToSet(handlers) :
           (h.kind \in {"leave", "close"} /\ h.ws \notin RoomsGet(rooms, RoomOf(h))) =>
               LET closed == [readyState EXCEPT ![h.ws] = "CLOSED"]
               IN /\ closeUpdate(rooms, broadcasts, RoomOf(h), h.broadcast)
                         = leaveRoomUpdate(rooms, broadcasts, RoomOf(h), h.broadcast)
                  /\ closeAnnounce(rooms, closed, RoomOf(h), h.listenerCount, h.broadcast)
                         = leaveRoomAnnounce(rooms, readyState, RoomOf(h), h.listenerCount,
                                             h.broadcast)

\* a close handler has removed its connection and persisted the count of a room
\* in which an open member remains to be told
C4_Witness ==
    \E h \in BagToSet(handlers) :
        /\ h.kind = "close" /\ h.pc = 2 /\ h.listenerCount = 1
        /\ broadcasts[h.broadcast.id].listenerCount = 1
        /\ \E m \in RoomsGet(rooms, wsRoomId[h.ws]) : Open(m)

\* C9: join-room is idempotent on membership: a join-room for the room the
\* connection's previous join-room named, with no leave-room in between, leaves
\* every membership set as it was, the connection counted once.
C9_JoinRoomIdempotent ==
    [][\A ws \in Conns, text \in ClientTexts :
          (JoinRoom(ws, text) /\ lastJoin[ws] # Undefined
              /\ Get(JSONparse(text), "roomId") = JStr(lastJoin[ws]))
          => (rooms' = rooms /\ ws \in rooms'[lastJoin[ws]])]_vars

\* two join-room messages, the only ones so far, came from one connection for
\* one room, which holds that connection exactly once: both handlers are
\* still suspended
C9_Witness ==
    /\ messages = 2
    /\ \E h \in BagToSet(handlers) : \E g \in BagToSet(handlers) :
           /\ h.kind = "join" /\ g.kind = "join"
           /\ h.ws = g.ws /\ h.roomId = g.roomId
           /\ h.pc = 1 /\ g.pc = 1
           /\ h.changed /\ ~g.changed
           /\ RoomsGet(rooms, h.roomId) = {h.ws}

\* C11: every forwarded offer, answer or ice-candidate is received with exactly
\* the type, roomId, wsSessionId and data the sender sent: the relay adds,
\* removes or changes no field (Get reads the value a text gives a field).
C11_ForwardedVerbatim ==
    [][\A ws \in Conns, text \in ClientTexts :
          Signal(ws, text) =>
              \A c \in Conns : \A i \in DOMAIN sent'[c] :
                  \A k \in {"type", "roomId", "sessionId", "data"} :
                      Get(sent'[c][i], k) = Get(text, k)]_vars

\* C12: a connection's session roomId is null before its first join-room, is
\* the joined room after a join-room is processed, and is null again once a
\* leave-room or a close has been processed; hence it is non-null exactly when
\* the connection is in some room's membership set.
C12_SessionRoomIdTracksMembership ==
    \A c \in Conns :
        /\ ~everJoined[c] => wsRoomId[c] = Undefined
        /\ lastJoin[c] # Undefined => wsRoomId[c] = lastJoin[c]
        /\ (lastJoin[c] = Undefined /\ Settled(c)) => wsRoomId[c] = Undefined
        /\ Settled(c) => (wsRoomId[c] # Undefined <=> RoomsOf(c) # {})

\* C13: for a connection that has never joined a room, both a leave-room
\* message and a close leave the membership table and every Broadcast record
\* unchanged, start no count update, and cause no message to be sent to any
\* connection.
C13_NeverJoinedNoEffect ==
    [][\A ws \in Conns :
          (~everJoined[ws] /\ (Close(ws) \/ \E text \in ClientTexts : LeaveRoom(ws, text)))
          => /\ rooms' = rooms
             /\ broadcasts' = broadcasts
             /\ handlers' = handlers
             /\ sent' = Nothing]_vars

\* a connection that never joined has closed while another open connection is
\* a member of a room that has a record
C13_Witness ==
    \E ws \in Conns :
        /\ readyState[ws] = "CLOSED" /\ ~everJoined[ws]
        /\ \E c \in Conns \ {ws} :
               /\ Open(c)
               /\ \E r \in RoomsOf(c) : getBroadcastByRoomId(broadcasts, r).found

\* the inbound types the protocol knows
InboundTypes == {"join-room", "leave-room", "offer", "answer", "ice-candidate"}

\* the text is not JSON, or its type is none of the inbound types
Unrecognized(text) ==
    \/ ~text.wellFormed
    \/ Get(text, "type").t # "string"
    \/ Get(text, "type").s \notin InboundTypes

\* the connection receives the text: whichever case of the handler takes it
Receive(ws, text) ==
    \/ JoinRoom(ws, text)
    \/ LeaveRoom(ws, text)
    \/ Signal(ws, text)
    \/ Dropped(ws, text)

IsSignalText(text) == IsSignal(JSONparse(text))

\* C15: the offer, answer and ice-candidate messages of a sender S reach a
\* recipient T of the same room in the order S sent them, also while handlers
\* of S are suspended at storage awaits: the step that receives such a message
\* hands it to every open T of S's room, and no step hands over a signaling
\* message other than the one it has just received, so the order of delivery
\* is the order of receipt.
C15_SignalsDeliveredInOrder ==
    [][/\ \A ws \in Conns, text \in ClientTexts :
              Signal(ws, text) =>
                  \A T \in RoomsGet(rooms, wsRoomId[ws]) \ {ws} :
                      Open(T) => sent'[T] = <<JSONstringify(JSONparse(text))>>
       /\ \A c \in Conns :
              /\ Len(sent'[c]) <= 1
              /\ \A i \in DOMAIN sent'[c] :
                     IsSignalText(sent'[c][i]) =>
                         \E ws \in Conns, text \in ClientTexts :
                             /\ Signal(ws, text)
                             /\ sent'[c][i] = JSONstringify(JSONparse(text))]_vars

\* a signaling message has just been handed to a recipient while a join-room
\* or leave-room handler of its sender is suspended
C15_Witness ==
    \E S \in Conns : \E T \in Conns \ {S} :
        /\ sent[T] # <<>> /\ IsSignalText(sent[T][1])
        /\ sent[S] = <<>>
        /\ \E h \in BagToSet(handlers) : h.ws = S /\ h.kind \in {"join", "leave"}

\* C16: under any interleaving of join-room, leave-room and close handlers, no
\* membership addition or removal is lost: once all handlers have finished, a
\* room's membership set holds every open connection that joined it last and
\* has not left since, and holds open connections only.
C16_NoMembershipUpdateLost ==
    Quiescent =>
        \A r \in RoomIds :
            /\ LiveJoinSet(r) \subseteq RoomsGet(rooms, r)
            /\ \A c \in RoomsGet(rooms, r) : Open(c)

\* C17: create fails with DuplicateRoom/Conflict whenever the registry already
\* holds a record, active or not, with that roomId, and then leaves the
\* registry unchanged.
C17_CreateRejectsDuplicateRoom ==
    [][\A insertBroadcast \in InsertBroadcasts :
          (/\ PostBroadcast(insertBroadcast)
           /\ getBroadcastByRoomId(broadcasts, insertBroadcast.roomId).found)
          => /\ PostResponse(broadcasts, currentBroadcastId, insertBroadcast).status # 200
             /\ broadcasts' = broadcasts]_vars

\* C18: in every reachable state no two Broadcast records with isActive = true
\* have the same roomId.
C18_ActiveRoomIdsUnique ==
    \A j \in DOMAIN broadcasts : \A k \in DOMAIN broadcasts :
        (j # k /\ broadcasts[j].isActive /\ broadcasts[k].isActive)
        => broadcasts[j].roomId # broadcasts[k].roomId

\* C19: every Broadcast record a successful create returns has isActive = true
\* and listenerCount = 0, whatever the request supplied.
C19_CreateInitialisesRecord ==
    [][\A insertBroadcast \in InsertBroadcasts :
          PostBroadcast(insertBroadcast) =>
              LET response == PostResponse(broadcasts, currentBroadcastId, insertBroadcast)
              IN response.status = 200 =>
                     /\ response.body.isActive = TRUE
                     /\ response.body.listenerCount = 0
                     /\ broadcasts'[currentBroadcastId] = response.body]_vars

\* C20: update with an id that denotes no Broadcast record returns NotFound and
\* leaves every record unchanged: none is created, none is modified.
C20_UpdateOfAbsentIdNotFound ==
    [][\A id \in 1..(MaxBroadcasts + 1), updates \in Updates :
          (PatchBroadcast(id, updates) /\ id \notin DOMAIN broadcasts)
          => /\ PatchResponse(broadcasts, id, updates).status = 404
             /\ broadcasts' = broadcasts]_vars

\* a PATCH has been served although no record has ever been created
C20_Witness == patches = 1 /\ broadcasts = <<>> /\ currentBroadcastId = 1

\* C21: update on an existing record sets exactly the supplied fields to the
\* supplied values and leaves every other field of the record, and every
\* other record, unchanged; the response carries the updated record.
C21_UpdateIsShallowMerge ==
    [][\A id \in 1..(MaxBroadcasts + 1), updates \in Updates :
          (PatchBroadcast(id, updates) /\ id \in DOMAIN broadcasts)
          => /\ DOMAIN broadcasts' = DOMAIN broadcasts
             /\ DOMAIN broadcasts'[id] = DOMAIN broadcasts[id] \cup DOMAIN updates
             /\ \A f \in DOMAIN updates : broadcasts'[id][f] = updates[f]
             /\ \A f \in DOMAIN broadcasts[id] \ DOMAIN updates :
                    broadcasts'[id][f] = broadcasts[id][f]
             /\ \A k \in DOMAIN broadcasts \ {id} : broadcasts'[k] = broadcasts[k]
             /\ PatchResponse(broadcasts, id, updates).status = 200
             /\ PatchResponse(broadcasts, id, updates).body = broadcasts'[id]]_vars

\* an update has set the listenerCount of one of two records (only a PATCH
\* stores a negative count) while a connection is a member of that record's room
C21_Witness ==
    /\ patches = 1
    /\ Cardinality(DOMAIN broadcasts) = 2
    /\ \E k \in DOMAIN broadcasts :
           /\ broadcasts[k].listenerCount = -1
           /\ RoomsGet(rooms, broadcasts[k].roomId) # {}

\* C22: in every reachable state each Broadcast record's id is the value
\* assigned to it at creation (the key it is stored under) and no two records
\* have the same id.
C22_IdImmutableAndUnique ==
    /\ \A k \in DOMAIN broadcasts : broadcasts[k].id = k
    /\ \A j \in DOMAIN broadcasts : \A k \in DOMAIN broadcasts :
           j # k => broadcasts[j].id # broadcasts[k].id

\* C23: in every reachable state the listenerCount of every Broadcast record is
\* a non-negative integer.
C23_ListenerCountNonNegative ==
    \A k \in DOMAIN broadcasts : broadcasts[k].listenerCount \in Nat

\* the ids of the records with isActive = true
ActiveIds == {k \in DOMAIN broadcasts : broadcasts[k].isActive}

\* the sum of f over a finite set
RECURSIVE SumOver(_, _)
SumOver(S, f) ==
    IF S = {} THEN 0
    ELSE LET x == CHOOSE y \in S : TRUE
         IN f[x] + SumOver(S \ {x}, f)

\* C24: the stats read returns activeStreams equal to the number of Broadcast
\* records with isActive = true and totalListeners equal to the sum of
\* listenerCount over exactly those records; an inactive record contributes to
\* neither, whatever its listenerCount.
C24_StatsCountActiveRecords ==
    /\ StatsResponse(broadcasts).status = 200
    /\ StatsResponse(broadcasts).body.activeStreams = Cardinality(ActiveIds)
    /\ StatsResponse(broadcasts).body.totalListeners
           = SumOver(ActiveIds, [k \in DOMAIN broadcasts |-> broadcasts[k].listenerCount])
    /\ \A k \in DOMAIN broadcasts \ ActiveIds :
           StatsResponse([broadcasts EXCEPT ![k].listenerCount = 0])
               = StatsResponse(broadcasts)

\* an active record with a listener and an inactive record with a listener
C24_Witness ==
    /\ \E k \in ActiveIds : broadcasts[k].listenerCount = 1
    /\ \E k \in DOMAIN broadcasts \ ActiveIds :
           /\ broadcasts[k].listenerCount = 1
           /\ RoomsGet(rooms, broadcasts[k].roomId) # {}

\* the rooms that have a record with isActive = true
ActiveRooms == {r \in RoomIds : \E k \in ActiveIds : broadcasts[k].roomId = r}

\* C25: whenever no join-room, leave-room or close handler is in flight, the
\* totalListeners of the stats read equals the sum, over the rooms that have an
\* active Broadcast, of the size of the room's membership set.
C25_TotalListenersIsLiveMembers ==
    Quiescent =>
        StatsResponse(broadcasts).body.totalListeners
            = SumOver(ActiveRooms, [r \in RoomIds |-> RoomsSize(rooms, r)])

\* what a client sees of a stopped record k: GET /api/broadcasts/room/:roomId
\* with the record's roomId answers a record with isActive = false, and the
\* activeStreams of the stats read counts only other records
ReadsAsStopped(bs, k) ==
    /\ getBroadcastByRoomId(bs, bs[k].roomId).found
    /\ ~getBroadcastByRoomId(bs, bs[k].roomId).isActive
    /\ StatsResponse(bs).body.activeStreams
           = Cardinality({j \in DOMAIN bs \ {k} : bs[j].isActive})

\* C26: after update(id, {isActive: false}) succeeds, every later read of that
\* broadcast by its roomId returns isActive = false and the activeStreams of
\* stats does not count it, until an update sets isActive on it again; no
\* join, leave, close or signaling event makes it active again.  Stated on
\* steps: the successful stop leaves the record reading as stopped, and a
\* record that reads as stopped still does after every step that is not an
\* update of it supplying isActive.
C26_StoppedStaysStopped ==
    [][/\ \A id \in 1..MaxBroadcasts :
              (/\ PatchBroadcast(id, [isActive |-> FALSE])
               /\ PatchResponse(broadcasts, id, [isActive |-> FALSE]).status = 200)
              => ReadsAsStopped(broadcasts', id)
       /\ \A k \in DOMAIN broadcasts :
              (/\ ReadsAsStopped(broadcasts, k)
               /\ ~ \E updates \in Updates :
                        "isActive" \in DOMAIN updates /\ PatchBroadcast(k, updates))
              => ReadsAsStopped(broadcasts', k)]_vars

\* the step is one of the relay's: no REST request is served in it
RelayStep == currentBroadcastId' = currentBroadcastId /\ patches' = patches

\* C27: the relay's handling of join-room, leave-room, close and signaling
\* messages changes no field of any Broadcast record other than listenerCount,
\* and changes listenerCount only on the record whose roomId is the room joined
\* or left (the room the handler that writes the count started with).
C27_RelayWritesOnlyItsRoomsCount ==
    [][RelayStep =>
          /\ DOMAIN broadcasts' = DOMAIN broadcasts
          /\ \A k \in DOMAIN broadcasts :
                 /\ DOMAIN broadcasts'[k] = DOMAIN broadcasts[k]
                 /\ \A f \in DOMAIN broadcasts[k] \ {"listenerCount"} :
                        broadcasts'[k][f] = broadcasts[k][f]
                 /\ broadcasts'[k].listenerCount # broadcasts[k].listenerCount
                    => \E h \in BagToSet(handlers) :
                           Update(h) /\ broadcasts[k].roomId = h.roomId]_vars

\* C28: no REST request and no relay event removes a Broadcast record: the set
\* of record ids (the keys the registry holds records under) never shrinks, and
\* every record ever created is still held.
C28_NoRecordIsRemoved ==
    [][/\ DOMAIN broadcasts \subseteq DOMAIN broadcasts'
       /\ DOMAIN broadcasts' = 1..(currentBroadcastId' - 1)]_vars

\* both records are held after one was stopped through PATCH, the last member
\* of its room has closed and the close handler has completed
C28_Witness ==
    /\ DOMAIN broadcasts = 1..MaxBroadcasts
    /\ patches = 1
    /\ Quiescent
    /\ \E k \in DOMAIN broadcasts, c \in Conns :
           /\ broadcasts[k].roomId = "r1"
           /\ ~broadcasts[k].isActive
           /\ readyState[c] = "CLOSED"
           /\ wsRoomId[c] = "r1"
           /\ RoomsSize(rooms, "r1") = 0

\* the step leaves everything outside the rooms R alone: the membership sets
\* of the other rooms, the records of the other roomIds, and the connections
\* that are members only of other rooms, to which nothing is delivered
OtherRoomsUntouched(R) ==
    /\ \A r \in RoomIds \ R : RoomsGet(rooms', r) = RoomsGet(rooms, r)
    /\ DOMAIN broadcasts' = DOMAIN broadcasts
    /\ \A k \in DOMAIN broadcasts :
           broadcasts[k].roomId \notin R => broadcasts'[k] = broadcasts[k]
    /\ \A c \in Conns :
           (RoomsOf(c) # {} /\ RoomsOf(c) \cap R = {}) => sent'[c] = <<>>

\* C29: any message, valid or invalid, from a connection whose session room is
\* R, and the closing of that connection, leave the membership sets of all
\* rooms other than R and the Broadcast records of all other roomIds unchanged,
\* and deliver nothing to connections that are members only of other rooms.
\* R is the connection's session room when the message arrives (for join-room
\* also the room it names); the steps in which the message's handler resumes
\* belong to the message.
C29_OtherRoomsUnaffected ==
    [][/\ \A ws \in Conns, text \in ClientTexts :
              (\/ JoinRoom(ws, text) \/ LeaveRoom(ws, text)
               \/ Signal(ws, text) \/ Dropped(ws, text))
              => OtherRoomsUntouched({wsRoomId[ws], wsRoomId'[ws]})
       /\ \A ws \in Conns : Close(ws) => OtherRoomsUntouched({wsRoomId[ws]})
       /\ \A h \in BagToSet(handlers) :
              (Update(h) \/ Announce(h)) => OtherRoomsUntouched({h.roomId})]_vars

\* C30: every connection is assigned a sessionId when it opens, the sessionId
\* never changes while the connection is open, and no two simultaneously open
\* connections have the same sessionId.
C30_SessionIdAssignedStableUnique ==
    [][/\ \A c \in Conns :
              readyState'[c] = "OPEN" => wsSessionId'[c] # NoSessionId
       /\ \A c \in Conns :
              (Open(c) /\ readyState'[c] = "OPEN") => wsSessionId'[c] = wsSessionId[c]
       /\ \A c \in Conns : \A d \in Conns \ {c} :
              (readyState'[c] = "OPEN" /\ readyState'[d] = "OPEN")
              => wsSessionId'[c] # wsSessionId'[d]]_vars

\* C31: a join-room for a roomId that has no Broadcast record still adds the
\* connection to that room's membership set and sets its session room, but
\* modifies no Broadcast record, sends no room-update to anyone and leaves no
\* handler behind that would; a signaling message of a connection joined to
\* such a room is still forwarded to the other open members.
C31_JoinWithoutRecord ==
    [][/\ \A ws \in Conns, text \in ClientTexts :
              LET roomId == Get(JSONparse(text), "roomId")
              IN (/\ messages' # messages
                  /\ Truthy(roomId)
                  /\ ~getBroadcastByRoomId(broadcasts, roomId.s).found
                  /\ JoinRoom(ws, text))
                 => /\ ws \in RoomsGet(rooms', roomId.s)
                    /\ RoomsGet(rooms', roomId.s) = RoomsGet(rooms, roomId.s) \cup {ws}
                    /\ wsRoomId'[ws] = roomId.s
                    /\ broadcasts' = broadcasts
                    /\ sent' = Nothing
                    /\ handlers' = handlers
       /\ \A ws \in Conns, text \in ClientTexts :
              (/\ messages' = messages
               /\ Joined(ws)
               /\ ~getBroadcastByRoomId(broadcasts, wsRoomId[ws]).found
               /\ Signal(ws, text))
              => /\ broadcasts' = broadcasts
                 /\ \A T \in rooms[wsRoomId[ws]] \ {ws} :
                        Open(T) => sent'[T] = <<JSONstringify(JSONparse(text))>>]_vars

\* a signaling message has just been handed to a member of a room that has
\* no record, sent by another member of that room
C31_Witness ==
    \E S \in Conns : \E T \in Conns \ {S} :
        /\ Joined(S) /\ Joined(T) /\ Open(S)
        /\ wsRoomId[S] = wsRoomId[T]
        /\ ~getBroadcastByRoomId(broadcasts, wsRoomId[T]).found
        /\ sent[T] # <<>> /\ IsSignalText(sent[T][1])
        /\ sent[S] = <<>>

\* C32: when the broadcaster client stops its broadcast (the PATCH with
\* {isActive: false} its panel issues for its room), the Broadcast record of
\* that room becomes inactive and no Broadcast record of any other room is
\* modified.
C32_StopDeactivatesOwnRecordOnly ==
    [][\A roomId \in RoomIds :
          (StopBroadcast(roomId) /\ getBroadcastByRoomId(broadcasts, roomId).found)
          => /\ \A k \in DOMAIN broadcasts' :
                    broadcasts'[k].roomId = roomId => ~broadcasts'[k].isActive
             /\ \A k \in DOMAIN broadcasts :
                    broadcasts[k].roomId # roomId => broadcasts'[k] = broadcasts[k]]_vars

\* C33: under any interleaving of join-room, leave-room and close handlers on
\* a room that has a Broadcast record, once all handlers have finished, the
\* last room-update delivered to each still-open member carries a
\* listenerCount equal to the room's final membership size.  Stated on the
\* announcement that finishes the last handler in flight: what it delivers is
\* the last room-update its recipients see, so it carries the final size of
\* the handler's room (the one it started with or the one its connection's
\* session names now) or of a room the recipient is a member of.
C33_LastRoomUpdateIsFinalSize ==
    [][\A h \in BagToSet(handlers) :
          (Announce(h) /\ handlers' = EmptyBag)
          => \A m \in Conns :
                 sent'[m] # <<>>
                 => \E r \in {h.roomId, wsRoomId[h.ws]} \cup RoomsOf(m) :
                        \E isActive \in BOOLEAN :
                            sent'[m] = <<RoomUpdateText(RoomsSize(rooms', r), isActive)>>]_vars

\* C34: every room-update announcement corresponds to an actual change of the
\* room's membership set: a join-room by a connection already in the room, a
\* second leave-room without an intervening join, or a close after leave-room
\* produces no room-update.  A handler whose add or delete left the set as it
\* was delivers nothing when it announces.
C34_AnnouncementsFollowChanges ==
    [][\A h \in BagToSet(handlers) :
          (Announce(h) /\ ~h.changed) => sent' = Nothing]_vars

\* C35: the relay never sends any message (room-update or forwarded signaling)
\* to a connection that is not open at the time of the fan-out; in particular
\* a closed connection receives nothing after its closure.
C35_OnlyOpenConnectionsReceive ==
    [][\A c \in Conns :
          sent'[c] # <<>> => (readyState[c] = "OPEN" /\ readyState'[c] = "OPEN")]_vars

\* a message has just been delivered to an open member of a room whose
\* membership set still holds a closed connection, which received nothing
C35_Witness ==
    \E c \in Conns : \E m \in Conns \ {c} : \E r \in DOMAIN rooms :
        /\ readyState[c] = "CLOSED" /\ Open(m)
        /\ c \in rooms[r] /\ m \in rooms[r]
        /\ sent[m] # <<>>
        /\ sent[c] = <<>>

\* the text is a message of type room-update
IsRoomUpdateText(text) == Get(JSONparse(text), "type") = JStr("room-update")

\* C36: every room-update received by any connection was generated by the
\* relay from a join, leave or close and carries a listenerCount that equalled
\* the room's membership size at the moment it was computed; a client-sent
\* message of type room-update is never relayed to other members.  A
\* room-update is handed over only by the announcement of a handler, carries
\* the count that handler read, and that count was, when it was read, the size
\* of the room the room-update is fanned out to.
C36_RoomUpdatesComeFromTheRelay ==
    [][/\ \A c \in Conns : \A i \in DOMAIN sent'[c] :
              IsRoomUpdateText(sent'[c][i])
              => \E h \in BagToSet(handlers) :
                     /\ Announce(h)
                     /\ sent'[c][i] = RoomUpdateText(h.listenerCount, h.broadcast.isActive)
                     /\ h.listenerCount = h.sizes[RoomOf(h)]
       /\ \A h \in BagToSet(handlers) :
              Update(h) => \E g \in BagToSet(handlers') :
                               /\ g.pc = 2
                               /\ g.listenerCount = RoomsSize(rooms, RoomOf(h))
       /\ \A ws \in Conns, text \in ClientTexts :
              (Receive(ws, text) /\ IsRoomUpdateText(text)) => sent' = Nothing]_vars

\* C37: signaling is routed by the sender's session room, not by the roomId
\* field of the message: an offer, answer or ice-candidate from a connection
\* joined to R that names a different roomId R' is delivered only to other
\* members of R and to no member of R'.
C37_SignalRoutedBySessionRoom ==
    [][\A ws \in Conns, text \in ClientTexts :
          LET named == Get(JSONparse(text), "roomId")
          IN (/\ Signal(ws, text)
              /\ Joined(ws)
              /\ named.t = "string"
              /\ named.s # wsRoomId[ws])
             => /\ \A c \in Conns :
                       sent'[c] # <<>> => c \in rooms[wsRoomId[ws]] \ {ws}
                /\ \A c \in RoomsGet(rooms, named.s) : sent'[c] = <<>>]_vars

\* C38: handling an offer, answer or ice-candidate message leaves the
\* membership table, every connection's session state and every Broadcast
\* record unchanged (and starts no handler that would change them later).
C38_SignalChangesNothing ==
    [][\A ws \in Conns, text \in ClientTexts :
          Signal(ws, text)
          => /\ rooms' = rooms
             /\ wsRoomId' = wsRoomId
             /\ wsSessionId' = wsSessionId
             /\ readyState' = readyState
             /\ broadcasts' = broadcasts
             /\ currentBroadcastId' = currentBroadcastId
             /\ handlers' = handlers]_vars

\* a signaling message that names another room than its sender's has just been
\* handed to the other member of the sender's room, with no handler in flight
\* and the room's record counting both
C38_Witness ==
    \E S \in Conns : \E T \in Conns \ {S} :
        /\ Joined(S) /\ Joined(T) /\ wsRoomId[S] = wsRoomId[T]
        /\ sent[S] = <<>> /\ sent[T] # <<>>
        /\ Get(JSONparse(sent[T][1]), "type") = JStr("offer")
        /\ Get(JSONparse(sent[T][1]), "roomId").t = "string"
        /\ Get(JSONparse(sent[T][1]), "roomId").s # wsRoomId[S]
        /\ Quiescent
        /\ \E k \in DOMAIN broadcasts :
               broadcasts[k].roomId = wsRoomId[S] /\ broadcasts[k].listenerCount = 2

====
